---- MODULE Spec2Model ----
(***************************************************************************)
(* Model of src/src/utils/csv_parser_utils.py: column-name canonicalization *)
(* (format_df_columns / clean_column_name), column classification          *)
(* (guess_metrics_and_columns), the ingest run (generate_ingest_files and   *)
(* the three writers) and the read operations over the ingest directory    *)
(* (get_ingest_folder_path, fetch_file_content).                           *)
(*                                                                         *)
(* A character is a one-element label; a string is a sequence of           *)
(* characters.  "TAB" is U+0009, "I_DOT" is U+0130 (capital I with dot     *)
(* above, whose lowercase is the two code points "i" + U+0307) and         *)
(* "COMB_DOT" is U+0307.                                                   *)
(***************************************************************************)
EXTENDS Integers, Sequences, FiniteSets, TLC

VARIABLES
    column_name,   \* clean_column_name: the argument of the first call
    cleaned,       \* clean_column_name: results of the successive calls
    csv,           \* guess_metrics_and_columns: the table read by pd.read_csv
    column_type_dict, \* guess_metrics_and_columns: the returned metadata
    pc,            \* position inside generate_ingest_files
    df,            \* generate_ingest_files: the (normalized) table
    dimensions,    \* generate_ingest_files: dimension name list
    metrics,       \* generate_ingest_files: metric name list
    program_name,  \* generate_ingest_files: argument
    i,             \* loop index of the running writer
    clock,         \* wall clock: days elapsed since Days[1]
    runs,          \* number of generate_ingest_files calls started
    outcome,       \* how the last generate_ingest_files call ended
    dimGrammar,    \* ingest/dimensions/<d>-dimension.grammar.csv files
    dimData,       \* ingest/dimensions/<d>-dimension.data.csv files
    evGrammar,     \* ingest/programs/<p>/<m>-event.grammar.csv files
    evData,        \* ingest/programs/<p>/<m>-event.data.csv files
    dirs,          \* directories that exist under <token>/ingest
    config,        \* ingest/config.json
    ret            \* the read operation just served and its result

vars == << column_name, cleaned, csv, column_type_dict, pc, df, dimensions,
           metrics, program_name, i, clock, runs, outcome, dimGrammar,
           dimData, evGrammar, evData, dirs, config, ret >>

canonVars == << column_name, cleaned >>
guessVars == << csv, column_type_dict >>
runVars == << pc, df, dimensions, metrics, program_name, i, clock, runs,
              outcome, dimGrammar, dimData, evGrammar, evData, dirs, config,
              ret >>

----------------------------------------------------------------------------
(* Bounds *)

MaxLen == 4        \* longest column name fed to clean_column_name

----------------------------------------------------------------------------
(* Sequence helpers *)

RECURSIVE Flatten(_)
Flatten(ss) == IF ss = << >> THEN << >> ELSE Head(ss) \o Flatten(Tail(ss))

Map(f(_), s) == [k \in 1..Len(s) |-> f(s[k])]

SeqsUpTo(S, n) == UNION {[1..k -> S] : k \in 0..n}

----------------------------------------------------------------------------
(* clean_column_name, csv_parser_utils.py lines 21-30 *)

AsciiLower == {"a", "b", "c", "d", "e", "i", "m", "n", "o", "r", "s", "t"}
AsciiUpper == {"A", "B", "D", "M", "N", "S"}
AsciiDigit == {"0", "7"}
Whitespace == {" ", "TAB"}

\* str.lower() of one character
LowerChar(c) ==
    CASE c = "A" -> <<"a">>
      [] c = "B" -> <<"b">>
      [] c = "D" -> <<"d">>
      [] c = "M" -> <<"m">>
      [] c = "N" -> <<"n">>
      [] c = "S" -> <<"s">>
      [] c = "I_DOT" -> <<"i", "COMB_DOT">>
      [] OTHER -> <<c>>

\* line 23: column_name.lower()
Lower(s) == Flatten(Map(LowerChar, s))

\* line 25: re.sub(r"[^a-zA-Z0-9]", " ", column_name)
SubNonAlnumChar(c) ==
    IF c \in AsciiLower \cup AsciiUpper \cup AsciiDigit THEN c ELSE " "

\* the substitution the comment on line 24 describes: special characters,
\* other than blanks, are replaced with ''
SubNonAlnumRemoved(s) ==
    SelectSeq(s, LAMBDA c : c \in AsciiLower \cup AsciiUpper \cup AsciiDigit
                            \cup Whitespace)

SubNonAlnum(s) == Map(SubNonAlnumChar, s)

\* line 26: column_name.strip()
RECURSIVE LStrip(_)
LStrip(s) ==
    IF s # << >> /\ Head(s) \in Whitespace THEN LStrip(Tail(s)) ELSE s

RECURSIVE RStrip(_)
RStrip(s) ==
    IF s # << >> /\ s[Len(s)] \in Whitespace
    THEN RStrip(SubSeq(s, 1, Len(s) - 1)) ELSE s

Strip(s) == RStrip(LStrip(s))

\* line 27: re.sub(r" {2,}", " ", column_name)
RECURSIVE CollapseSpaces(_)
CollapseSpaces(s) ==
    IF Len(s) < 2 THEN s
    ELSE IF s[1] = " " /\ s[2] = " " THEN CollapseSpaces(Tail(s))
    ELSE <<s[1]>> \o CollapseSpaces(Tail(s))

\* line 29: column_name.replace(" ", "_")
ReplaceSpaces(s) == [k \in 1..Len(s) |-> IF s[k] = " " THEN "_" ELSE s[k]]

clean_column_name(s) ==
    ReplaceSpaces(CollapseSpaces(Strip(SubNonAlnum(Lower(s)))))

----------------------------------------------------------------------------
(* Specification SpecCanon: clean_column_name applied, and applied again to *)
(* its own result, on every string over Alphabet of at most MaxLen          *)
(* characters.                                                              *)

Alphabet == {"A", "a", "7", "_", " ", "TAB", "-", "I_DOT"}

RunIdle ==
    /\ pc = "idle"
    /\ df = << >>
    /\ dimensions = << >>
    /\ metrics = << >>
    /\ program_name = ""
    /\ i = 0
    /\ clock = 0
    /\ runs = 0
    /\ outcome = "none"
    /\ dimGrammar = << >>
    /\ dimData = << >>
    /\ evGrammar = << >>
    /\ evData = << >>
    /\ dirs = {}
    /\ config = "absent"
    /\ ret = [op |-> "none"]

GuessIdle ==
    /\ csv = << >>
    /\ column_type_dict = << >>

CanonIdle ==
    /\ column_name = << >>
    /\ cleaned = << >>

InitCanon ==
    /\ column_name \in SeqsUpTo(Alphabet, MaxLen)
    /\ cleaned = << >>
    /\ GuessIdle
    /\ RunIdle

\* the first call: clean_column_name(column_name)
Clean ==
    /\ cleaned = << >>
    /\ cleaned' = << clean_column_name(column_name) >>
    /\ UNCHANGED << column_name, guessVars, runVars >>

\* the call on a name that is already a result of clean_column_name
CleanAgain ==
    /\ Len(cleaned) = 1
    /\ cleaned' = Append(cleaned, clean_column_name(cleaned[1]))
    /\ UNCHANGED << column_name, guessVars, runVars >>

NextCanon == Clean \/ CleanAgain

SpecCanon == InitCanon /\ [][NextCanon]_vars

\* ^[a-z0-9]+(_[a-z0-9]+)*$
MatchesCanonicalPattern(s) ==
    /\ s # << >>
    /\ \A k \in 1..Len(s) : s[k] \in AsciiLower \cup AsciiDigit \cup {"_"}
    /\ s[1] # "_"
    /\ s[Len(s)] # "_"
    /\ \A k \in 1..(Len(s) - 1) : ~(s[k] = "_" /\ s[k + 1] = "_")

\* C6: every result of clean_column_name matches ^[a-z0-9]+(_[a-z0-9]+)*$;
\* an input without such a result is rejected, so no call returns the empty
\* name.  (The function has no rejecting path: every call returns a name.)
C6_CanonicalOrRejected ==
    \A k \in 1..Len(cleaned) : MatchesCanonicalPattern(cleaned[k])

\* C7: clean_column_name(clean_column_name(x)) = clean_column_name(x)
C7_Idempotent ==
    Len(cleaned) = 2 => cleaned[2] = cleaned[1]

\* C7 witness: a name whose first result contains an underscore has been
\* canonicalized twice
C7_Witness ==
    /\ Len(cleaned) = 2
    /\ \E k \in 1..Len(cleaned[1]) : cleaned[1][k] = "_"
    /\ cleaned[1] # column_name

----------------------------------------------------------------------------
(* guess_metrics_and_columns, csv_parser_utils.py lines 37-55               *)
(*                                                                          *)
(* A cell is the text of one CSV field: an optional sign, a magnitude, and  *)
(* for a float a decimal point and one fractional digit.  The magnitude is  *)
(* kept as base-65536 limbs, most significant first and without leading     *)
(* zero limbs, so that the 64-bit limits of the integer column types are    *)
(* exact.                                                                   *)

IntCell(neg, mag) == [kind |-> "int", neg |-> neg, mag |-> mag, frac |-> 0]
FloatCell(neg, mag, frac) ==
    [kind |-> "float", neg |-> neg, mag |-> mag, frac |-> frac]
OtherCell(kind) == [kind |-> kind, neg |-> FALSE, mag |-> << >>, frac |-> 0]

Limb == 2 ^ 16

\* -2^63 <= value <= 2^63 - 1
FitsInt64(c) ==
    \/ Len(c.mag) < 4
    \/ Len(c.mag) = 4 /\ c.mag[1] < Limb \div 2
    \/ c.neg /\ c.mag = << Limb \div 2, 0, 0, 0 >>

\* 0 <= value <= 2^64 - 1
FitsUint64(c) ==
    /\ Len(c.mag) <= 4
    /\ ~c.neg \/ c.mag = << 0 >>

\* line 39: the column type pd.read_csv infers from the cells of a column
InferDtype(cells) ==
    LET kinds == {cells[k].kind : k \in 1..Len(cells)}
        ints == {cells[k] : k \in 1..Len(cells)}
    IN  IF cells = << >> THEN "object"
        ELSE IF kinds = {"int"} THEN
            IF \A c \in ints : FitsInt64(c) THEN "int64"
            ELSE IF \A c \in ints : FitsUint64(c) THEN "uint64"
            ELSE "object"
        ELSE IF kinds \subseteq {"int", "float", "na"} THEN
            IF \A c \in ints : c.kind = "int" => FitsInt64(c)
            THEN "float64" ELSE "object"
        ELSE IF kinds = {"bool"} THEN "bool"
        ELSE "object"

\* line 43: df[column].dtype == "int"  ("int" is numpy's default integer,
\* int64 on the platforms the service runs on)
DtypeEqInt(dtype) == dtype = "int64"

\* lines 42-54: the entry of one column
GuessEntry(col) ==
    [ key |-> col.name,
      updated_col_name |-> col.name,
      metric |-> DtypeEqInt(InferDtype(col.cells)),
      dimension |-> ~DtypeEqInt(InferDtype(col.cells)) ]

guess_metrics_and_columns(table) ==
    [k \in 1..Len(table) |-> GuessEntry(table[k])]

----------------------------------------------------------------------------
(* Specification SpecGuess: guess_metrics_and_columns on every table of at  *)
(* most MaxGuessCols columns and 1..MaxGuessRows rows over SampleCells.     *)

MaxGuessCols == 2
MaxGuessRows == 2

SampleCells ==
    { IntCell(FALSE, << 0 >>),                              \* 0
      IntCell(TRUE, << 3 >>),                               \* -3
      IntCell(FALSE, << 32767, 65535, 65535, 65535 >>),     \* 2^63 - 1
      IntCell(FALSE, << 32768, 0, 0, 0 >>),                 \* 2^63
      IntCell(TRUE, << 32768, 0, 0, 0 >>),                  \* -2^63
      IntCell(FALSE, << 1, 0, 0, 0, 0 >>),                  \* 2^64
      FloatCell(FALSE, << 1 >>, 0),                         \* 1.0
      FloatCell(TRUE, << 2 >>, 5),                          \* -2.5
      OtherCell("text"),                                    \* abc
      OtherCell("na"),                                      \* empty field
      OtherCell("bool") }                                   \* True

\* header of the k-th column: "n", "nn", ... (pd.read_csv keeps headers
\* distinct)
GuessHeader(k) == [j \in 1..k |-> "n"]

GuessTables ==
    UNION { { [k \in 1..nc |-> [name |-> GuessHeader(k), cells |-> cs[k]]] :
                cs \in [1..nc -> [1..nr -> SampleCells]] } :
            nc \in 1..MaxGuessCols, nr \in 1..MaxGuessRows }

InitGuess ==
    /\ csv \in GuessTables
    /\ column_type_dict = << >>
    /\ CanonIdle
    /\ RunIdle

\* the call guess_metrics_and_columns(token, filename) on the file holding csv
Guess ==
    /\ column_type_dict = << >>
    /\ column_type_dict' = guess_metrics_and_columns(csv)
    /\ UNCHANGED << csv, canonVars, runVars >>

NextGuess == Guess

SpecGuess == InitGuess /\ [][NextGuess]_vars

\* the text of the cell is an optionally signed run of digits
ParsesAsInteger(c) == c.kind = "int"

\* C8: one entry per column, updated_col_name is the original name, exactly
\* one of metric/dimension is true, and metric holds iff every value of the
\* column parses as an integer
C8_MetricIffAllIntegers ==
    column_type_dict # << >> =>
        /\ Len(column_type_dict) = Len(csv)
        /\ \A k \in 1..Len(csv) :
            /\ column_type_dict[k].key = csv[k].name
            /\ column_type_dict[k].updated_col_name = csv[k].name
            /\ column_type_dict[k].metric # column_type_dict[k].dimension
            /\ column_type_dict[k].metric <=>
                 \A r \in 1..Len(csv[k].cells) :
                     ParsesAsInteger(csv[k].cells[r])

----------------------------------------------------------------------------
(* Tables.  A table (DataFrame) is a sequence of columns, each a label and  *)
(* the sequence of its values; pandas allows several columns to carry the   *)
(* same label.  column_metadata is a dict in insertion order: a sequence of *)
(* entries, one per column of the uploaded file.                            *)

NumRows(table) == IF table = << >> THEN 0 ELSE Len(table[1].vals)

\* df[label]: every column carrying the label, in table order
ColumnsNamed(table, label) == SelectSeq(table, LAMBDA c : c.name = label)

\* df[labels]
SelectColumns(table, labels) ==
    Flatten([k \in 1..Len(labels) |-> ColumnsNamed(table, labels[k])])

\* the rows of a table, each the tuple of its columns' values
RowsOf(table) ==
    [r \in 1..NumRows(table) |-> [k \in 1..Len(table) |-> table[k].vals[r]]]

----------------------------------------------------------------------------
(* format_df_columns, csv_parser_utils.py lines 11-34 *)

\* lines 14-17: user_specified_column_name, applied to one label by rename
UserSpecifiedColumnName(column_metadata, label) ==
    IF \E k \in 1..Len(column_metadata) : column_metadata[k].key = label
    THEN column_metadata[CHOOSE k \in 1..Len(column_metadata) :
                            column_metadata[k].key = label].updated_col_name
    ELSE label

\* line 19: df.rename(columns=user_specified_column_name)
Rename(table, column_metadata) ==
    [k \in 1..Len(table) |->
        [table[k] EXCEPT !.name = UserSpecifiedColumnName(column_metadata, @)]]

\* line 32: old_column_mapping, keyed by the renamed labels
OldColumnMapping(renamed) ==
    [n \in {renamed[k].name : k \in 1..Len(renamed)} |-> clean_column_name(n)]

\* line 33: df.columns = [clean_column_name(col) for col in df.columns]
CleanColumns(renamed) ==
    [k \in 1..Len(renamed) |->
        [renamed[k] EXCEPT !.name = clean_column_name(@)]]

format_df_columns(table, column_metadata) ==
    [ df |-> CleanColumns(Rename(table, column_metadata)),
      column_mapping |-> OldColumnMapping(Rename(table, column_metadata)) ]

----------------------------------------------------------------------------
(* generate_ingest_files, lines 58-87: the split of lines 70-77 *)

SplitNames(column_metadata, column_mapping, metric) ==
    LET sel == SelectSeq(column_metadata, LAMBDA e : e.metric = metric)
    IN  [k \in 1..Len(sel) |-> column_mapping[sel[k].updated_col_name]]

----------------------------------------------------------------------------
(* write_dimensions_to_ingest_folder, lines 90-112 *)

Suffix_id == << "_", "i", "d" >>

\* lines 97-99: PK,Index / string,string / <dimension>_id,<dimension>
DimensionGrammar(dimension) ==
    << << <<"P", "K">>, <<"I", "n", "d", "e", "x">> >>,
       << <<"s", "t", "r", "i", "n", "g">>, <<"s", "t", "r", "i", "n", "g">> >>,
       << dimension \o Suffix_id, dimension >> >>

\* drop_duplicates(keep="first") on a sequence of rows
RECURSIVE DropDuplicates(_)
DropDuplicates(rows) ==
    IF rows = << >> THEN << >>
    ELSE LET front == DropDuplicates(SubSeq(rows, 1, Len(rows) - 1))
             last == rows[Len(rows)]
         IN  IF \E k \in 1..Len(front) : front[k] = last
             THEN front ELSE Append(front, last)

\* lines 105-112: the data file of one dimension
DimensionData(table, dimension) ==
    LET selected == ColumnsNamed(table, dimension)
        column_df == DropDuplicates(RowsOf(selected))
    IN  [ header |-> << dimension \o Suffix_id >> \o
                       [k \in 1..Len(selected) |-> selected[k].name],
          rows |-> [k \in 1..Len(column_df) |->
                       [id |-> k, vals |-> column_df[k]]] ]

----------------------------------------------------------------------------
(* write_events_to_ingest_folder, lines 115-139 *)

KwDate == << "d", "a", "t", "e" >>
KwString == << "s", "t", "r", "i", "n", "g" >>
KwInteger == << "i", "n", "t", "e", "g", "e", "r" >>
KwTimeDimension == << "t", "i", "m", "e", "D", "i", "m", "e", "n", "s", "i", "o", "n" >>
KwDimension == << "d", "i", "m", "e", "n", "s", "i", "o", "n" >>
KwMetric == << "m", "e", "t", "r", "i", "c" >>

\* the fields of ",".join(names): one empty field when names is empty
JoinFields(names) == IF names = << >> THEN << << >> >> ELSE names

Repeat(x, n) == [k \in 1..n |-> x]

\* lines 125-131: the five lines of the event grammar, as lists of fields
EventGrammar(dims, metric) ==
    << << << >> >> \o JoinFields(dims) \o << << >> >>,
       << << >> >> \o JoinFields(dims) \o << << >> >>,
       << KwDate >> \o Repeat(KwString, Len(dims)) \o << KwInteger >>,
       << KwDate >> \o JoinFields(dims) \o << metric >>,
       << KwTimeDimension >> \o Repeat(KwDimension, Len(dims)) \o << KwMetric >> >>

\* lines 132-133: event_df = df[dimensions + [metric]]
EventDf(table, dims, metric) == SelectColumns(table, dims \o << metric >>)

\* line 134: DataFrame.insert refuses a label the frame already carries
\* (ValueError: cannot insert date, already exists)
InsertDateFails(event_df) ==
    \E k \in 1..Len(event_df) : event_df[k].name = KwDate

\* the calendar days the clock runs through
Days ==
    << [day |-> 31, month |-> 12, year |-> 1999],
       [day |-> 1, month |-> 1, year |-> 2000],
       [day |-> 2, month |-> 1, year |-> 2000],
       [day |-> 3, month |-> 1, year |-> 2000] >>

Pad2(n) == IF n < 10 THEN "0" \o ToString(n) ELSE ToString(n)

\* line 135: datetime.today().strftime("%d/%m/%y")
Strftime(d) == Pad2(d.day) \o "/" \o Pad2(d.month) \o "/" \o Pad2(d.year % 100)

Today(clk) == Days[clk + 1]

\* lines 134-139: the data file of one metric
EventData(table, dims, metric, date) ==
    LET event_df == EventDf(table, dims, metric)
        rows == RowsOf(event_df)
    IN  [ header |-> << KwDate >> \o
                       [k \in 1..Len(event_df) |-> event_df[k].name],
          rows |-> [r \in 1..Len(rows) |-> [date |-> date, vals |-> rows[r]]] ]

----------------------------------------------------------------------------
(* The directory tree under <token>/ingest *)

\* create_folder_if_not (src/utils/utils.py): the folder and its parents
\* exist afterwards; what is already there is left alone
create_folder_if_not(existing, path) ==
    existing \cup {SubSeq(path, 1, k) : k \in 1..Len(path)}

\* open(path, "w") / to_csv(path): the file is created or replaced
WriteFile(fs, key, content) ==
    [k \in DOMAIN fs \cup {key} |-> IF k = key THEN content ELSE fs[k]]

----------------------------------------------------------------------------
(* get_ingest_folder_path (lines 176-180) and fetch_file_content (lines     *)
(* 194-208).  A read's result is a record: status "return" or "raise",      *)
(* kind (what is returned, or the exception raised), the program directory  *)
(* a returned path names, and the rows a preview holds.                     *)

Result(status, kind, path, rows) ==
    [status |-> status, kind |-> kind, path |-> path, rows |-> rows]

\* os.listdir(<token>/ingest/programs)
ListPrograms(existing) ==
    {d[2] : d \in {e \in existing : Len(e) = 2 /\ e[1] = "programs"}}

\* the results get_ingest_folder_path can have: os.listdir raises when the
\* folder is missing, [0] raises on an empty listing, and the order of a
\* listing is arbitrary
get_ingest_folder_path(existing) ==
    IF << "programs" >> \notin existing
    THEN {Result("raise", "FileNotFoundError", "", << >>)}
    ELSE IF ListPrograms(existing) = {}
    THEN {Result("raise", "IndexError", "", << >>)}
    ELSE {Result("return", "path", name, << >>) :
            name \in ListPrograms(existing)}

EventSuffixes == {"event.data.csv", "event.grammar.csv"}
DimensionSuffixes == {"dimension.data.csv", "dimension.grammar.csv"}

HeadRows == 5

\* lines 206-207: pd.read_csv(file_path), then df.head() as records
Preview(rows) ==
    Result("return", "records", "",
           SubSeq(rows, 1, IF Len(rows) < HeadRows THEN Len(rows) ELSE HeadRows))

\* the rows pd.read_csv finds in a file: a grammar file's first line is
\* taken as the header
RowsRead(files, key, suffix) ==
    IF suffix \in {"event.data.csv", "dimension.data.csv"}
    THEN files[key].rows ELSE Tail(files[key])

\* lines 204-208, for the file `key` of the folder holding `files`
PreviewOrNone(files, key, suffix) ==
    IF key \notin DOMAIN files
    THEN Result("return", "None", "", << >>)
    ELSE Preview(RowsRead(files, key, suffix))

\* the results fetch_file_content can have on the file <stem>-<suffix>
fetch_file_content(filename, existing, evG, evD, dimG, dimD) ==
    IF filename.suffix \in EventSuffixes
    THEN { IF folder.status = "raise" THEN folder
           ELSE PreviewOrNone(
                    IF filename.suffix = "event.data.csv" THEN evD ELSE evG,
                    << folder.path, filename.stem >>, filename.suffix) :
           folder \in get_ingest_folder_path(existing) }
    ELSE IF filename.suffix \in DimensionSuffixes
    THEN { PreviewOrNone(
               IF filename.suffix = "dimension.data.csv" THEN dimD ELSE dimG,
               filename.stem, filename.suffix) }
    ELSE { Result("return", "None", "", << >>) }

----------------------------------------------------------------------------
(* Specification Spec: ingest runs on one token, one after the other, and   *)
(* the read operations between them.                                        *)

MaxCols == 2       \* columns of an uploaded file
MaxRuns == 2       \* generate_ingest_files calls on the token
MaxClock == 1      \* midnights that pass

ProgramNames == {"p", "q"}

NameAB == << "A", " ", "b" >>       \* "A b"
Name_ab == << "a", "_", "b" >>      \* "a_b"
NameDate == << "D", "a", "t", "e" >> \* "Date"
NameS == << "s" >>                  \* "s"

\* the columns an uploaded file is made of
UploadColumns ==
    { [name |-> NameAB, vals |-> << "Ada", "Grace", "Ada" >>],
      [name |-> Name_ab, vals |-> << "x", "x", "y" >>],
      [name |-> NameDate, vals |-> << "mon", "tue", "mon" >>],
      [name |-> NameS, vals |-> << "10", "10", "7" >>] }

\* the uploaded files: pd.read_csv keeps the labels of a file distinct
UploadTables ==
    { t \in UNION {[1..n -> UploadColumns] : n \in 1..MaxCols} :
        \A j, k \in 1..Len(t) : j # k => t[j].name # t[k].name }

\* the names a user may give a column in place of its own
RenameTargets == { NameAB }

\* the metadata a caller may pass for a table: what guess_metrics_and_columns
\* returned, with updated_col_name and the metric/dimension flags edited
MetadataFor(table) ==
    { md \in [1..Len(table) ->
                [ key : {table[k].name : k \in 1..Len(table)},
                  updated_col_name :
                      {table[k].name : k \in 1..Len(table)} \cup RenameTargets,
                  metric : BOOLEAN, dimension : BOOLEAN ]] :
        \A k \in 1..Len(table) :
            /\ md[k].key = table[k].name
            /\ md[k].updated_col_name \in {md[k].key} \cup RenameTargets
            /\ md[k].dimension = ~md[k].metric }

Init ==
    /\ CanonIdle
    /\ GuessIdle
    /\ RunIdle

\* generate_ingest_files, lines 61-81 up to the loop of
\* write_dimensions_to_ingest_folder (lines 93-94)
GenerateStart ==
    /\ pc = "idle"
    /\ ret.op = "none"
    /\ runs < MaxRuns
    /\ \E table \in UploadTables, name \in ProgramNames :
         \E column_metadata \in MetadataFor(table) :
            LET formatted == format_df_columns(table, column_metadata)
            IN  /\ df' = formatted.df
                /\ metrics' = SplitNames(column_metadata,
                                         formatted.column_mapping, TRUE)
                /\ dimensions' = SplitNames(column_metadata,
                                            formatted.column_mapping, FALSE)
                /\ program_name' = name
    /\ dirs' = create_folder_if_not(dirs, << "dimensions" >>)
    /\ pc' = "dimensions"
    /\ i' = 1
    /\ runs' = runs + 1
    /\ outcome' = "running"
    /\ UNCHANGED << canonVars, guessVars, clock, dimGrammar, dimData,
                    evGrammar, evData, config, ret >>

\* one iteration of the loop of lines 96-112
WriteDimension ==
    /\ pc = "dimensions"
    /\ i <= Len(dimensions)
    /\ dimGrammar' = WriteFile(dimGrammar, dimensions[i],
                               DimensionGrammar(dimensions[i]))
    /\ dimData' = WriteFile(dimData, dimensions[i],
                            DimensionData(df, dimensions[i]))
    /\ i' = i + 1
    /\ UNCHANGED << canonVars, guessVars, pc, df, dimensions, metrics,
                    program_name, clock, runs, outcome, evGrammar, evData,
                    dirs, config, ret >>

\* write_dimensions_to_ingest_folder returns; lines 118-119 of
\* write_events_to_ingest_folder
StartEvents ==
    /\ pc = "dimensions"
    /\ i > Len(dimensions)
    /\ dirs' = create_folder_if_not(dirs, << "programs", program_name >>)
    /\ pc' = "events"
    /\ i' = 1
    /\ UNCHANGED << canonVars, guessVars, df, dimensions, metrics,
                    program_name, clock, runs, outcome, dimGrammar, dimData,
                    evGrammar, evData, config, ret >>

\* one iteration of the loop of lines 121-139: the grammar file is written,
\* then the data file, dated by the clock as read in this iteration
WriteEvent ==
    /\ pc = "events"
    /\ i <= Len(metrics)
    /\ ~InsertDateFails(EventDf(df, dimensions, metrics[i]))
    /\ evGrammar' = WriteFile(evGrammar, << program_name, metrics[i] >>,
                              EventGrammar(dimensions, metrics[i]))
    /\ evData' = WriteFile(evData, << program_name, metrics[i] >>,
                           EventData(df, dimensions, metrics[i],
                                     Strftime(Today(clock))))
    /\ i' = i + 1
    /\ UNCHANGED << canonVars, guessVars, pc, df, dimensions, metrics,
                    program_name, clock, runs, outcome, dimGrammar, dimData,
                    dirs, config, ret >>

\* the iteration in which event_df.insert (line 134) raises: the grammar
\* file of the metric is written, no data file is, and the exception ends
\* generate_ingest_files
WriteEventRaises ==
    /\ pc = "events"
    /\ i <= Len(metrics)
    /\ InsertDateFails(EventDf(df, dimensions, metrics[i]))
    /\ evGrammar' = WriteFile(evGrammar, << program_name, metrics[i] >>,
                              EventGrammar(dimensions, metrics[i]))
    /\ pc' = "idle"
    /\ outcome' = "ValueError"
    /\ UNCHANGED << canonVars, guessVars, df, dimensions, metrics,
                    program_name, i, clock, runs, dimGrammar, dimData,
                    evData, dirs, config, ret >>

\* write_events_to_ingest_folder returns; write_config_to_ingest_folder
\* (lines 142-168) writes config.json, of which the program name is kept
\* (the rest of the document is fixed text and the description), and
\* generate_ingest_files returns (line 87)
WriteConfig ==
    /\ pc = "events"
    /\ i > Len(metrics)
    /\ config' = program_name
    /\ pc' = "idle"
    /\ outcome' = "returned"
    /\ UNCHANGED << canonVars, guessVars, df, dimensions, metrics,
                    program_name, i, clock, runs, dimGrammar, dimData,
                    evGrammar, evData, dirs, ret >>

\* midnight passes while write_events_to_ingest_folder is running (the clock
\* is read nowhere else)
Tick ==
    /\ pc = "events"
    /\ clock < MaxClock
    /\ clock' = clock + 1
    /\ UNCHANGED << canonVars, guessVars, pc, df, dimensions, metrics,
                    program_name, i, runs, outcome, dimGrammar, dimData,
                    evGrammar, evData, dirs, config, ret >>

\* the file names previews are asked for: <stem>-<suffix>, and config.json
Filenames ==
    [ stem : {clean_column_name(NameAB), clean_column_name(NameS)},
      suffix : EventSuffixes \cup DimensionSuffixes \cup {"config.json"} ]

\* the call get_ingest_folder_path(token)
GetIngestFolderPath ==
    /\ pc = "idle"
    /\ ret.op = "none"
    /\ \E r \in get_ingest_folder_path(dirs) :
         ret' = [op |-> "get_ingest_folder_path", arg |-> << >>, result |-> r]
    /\ UNCHANGED << canonVars, guessVars, pc, df, dimensions, metrics,
                    program_name, i, clock, runs, outcome, dimGrammar,
                    dimData, evGrammar, evData, dirs, config >>

\* the call fetch_file_content(token, filename)
FetchFileContent ==
    /\ pc = "idle"
    /\ ret.op = "none"
    /\ \E filename \in Filenames :
         \E r \in fetch_file_content(filename, dirs, evGrammar, evData,
                                     dimGrammar, dimData) :
            ret' = [op |-> "fetch_file_content", arg |-> filename,
                    result |-> r]
    /\ UNCHANGED << canonVars, guessVars, pc, df, dimensions, metrics,
                    program_name, i, clock, runs, outcome, dimGrammar,
                    dimData, evGrammar, evData, dirs, config >>

\* the caller has the result of the read; the service takes the next call
ReadReturns ==
    /\ ret.op # "none"
    /\ ret' = [op |-> "none"]
    /\ UNCHANGED << canonVars, guessVars, pc, df, dimensions, metrics,
                    program_name, i, clock, runs, outcome, dimGrammar,
                    dimData, evGrammar, evData, dirs, config >>

Next ==
    \/ GenerateStart
    \/ WriteDimension
    \/ StartEvents
    \/ WriteEvent
    \/ WriteEventRaises
    \/ WriteConfig
    \/ Tick
    \/ GetIngestFolderPath
    \/ FetchFileContent
    \/ ReadReturns

Spec == Init /\ [][Next]_vars

----------------------------------------------------------------------------
(* Claims on the ingest run *)

\* the dimensions whose files the current (or last) run has written
WrittenDimensions ==
    IF outcome = "none" THEN {}
    ELSE IF pc = "dimensions" THEN {dimensions[k] : k \in 1..(i - 1)}
    ELSE {dimensions[k] : k \in 1..Len(dimensions)}

\* the metrics whose loop iteration the current (or last) run has completed
WrittenMetrics ==
    IF outcome = "none" \/ pc = "dimensions" THEN {}
    ELSE {metrics[k] : k \in 1..(i - 1)}

\* write_events_to_ingest_folder has ended, by returning or by raising
EventsEnded == pc = "idle" /\ outcome \in {"returned", "ValueError"}

SetOf(seq) == {seq[k] : k \in 1..Len(seq)}

\* the place of the first occurrence of v in vals
FirstIndex(vals, v) == CHOOSE k \in 1..Len(vals) :
    vals[k] = v /\ \A j \in 1..(k - 1) : vals[j] # v

\* C1: the data written for a dimension has one row per distinct value of
\* the source column carrying that name, each row holding an id and that one
\* value, no value twice, the values in the order of their first occurrence
\* in the column, and the ids 1, 2, ..., N in that order
C1_DimensionRowsFirstOccurrence ==
    \A d \in WrittenDimensions :
        \A c \in 1..Len(df) : df[c].name = d =>
            LET rows == dimData[d].rows
                vals == df[c].vals
            IN  /\ Len(rows) = Cardinality(SetOf(vals))
                /\ \A k \in 1..Len(rows) :
                    /\ rows[k].id = k
                    /\ Len(rows[k].vals) = 1
                    /\ rows[k].vals[1] \in SetOf(vals)
                /\ \A j, k \in 1..Len(rows) : j < k =>
                    /\ Len(rows[j].vals) = 1 /\ Len(rows[k].vals) = 1
                    /\ rows[j].vals[1] # rows[k].vals[1]
                    /\ FirstIndex(vals, rows[j].vals[1])
                         < FirstIndex(vals, rows[k].vals[1])

\* the value source row r holds in the column labelled label
SourceValue(label, r) == ColumnsNamed(df, label)[1].vals[r]

\* the fact table of metric m is there, has as many rows as the source
\* table, in source order, and row r is the date, the row's value for each
\* dimension in list order, and the row's value for the metric
FactTableMatchesSource(m) ==
    /\ << program_name, m >> \in DOMAIN evData
    /\ LET rows == evData[<< program_name, m >>].rows
           headers == dimensions \o << m >>
       IN  /\ Len(rows) = NumRows(df)
           /\ \A r \in 1..Len(rows) :
                /\ Len(rows[r].vals) = Len(headers)
                /\ \A k \in 1..Len(headers) :
                     k <= Len(rows[r].vals)
                        => rows[r].vals[k] = SourceValue(headers[k], r)

\* C2: for every metric of the metric list the fact table written by
\* write_events_to_ingest_folder has exactly the rows of the source table:
\* row r is [date] + [row r's value for each dimension] + [row r's metric
\* value]
C2_FactRowsMatchSource ==
    /\ \A m \in WrittenMetrics : FactTableMatchesSource(m)
    /\ EventsEnded => \A m \in SetOf(metrics) : FactTableMatchesSource(m)

\* C3: a table whose columns (after the renames) canonicalize to the same
\* name is rejected by normalization, so a run never works on a table with
\* two columns of one name and never writes two columns into one file
C3_NoDuplicateCanonicalNames ==
    /\ \A j, k \in 1..Len(df) : j # k => df[j].name # df[k].name
    /\ \A j, k \in 1..Len(dimensions) : j # k => dimensions[j] # dimensions[k]
    /\ \A j, k \in 1..Len(metrics) : j # k => metrics[j] # metrics[k]

\* C4: get_ingest_folder_path returns a path only when ingest/programs holds
\* exactly one program directory; with none or several it fails and returns
\* no path.  (Any exception counts as the failure the claim names.)
C4_OneProgramOrFailure ==
    ret.op = "get_ingest_folder_path" =>
        /\ ret.result.status = "return"
              => Cardinality(ListPrograms(dirs)) = 1
        /\ Cardinality(ListPrograms(dirs)) # 1 => ret.result.status = "raise"

\* a file of the ingest tree carries the requested name
NamedFileExists(filename) ==
    \/ /\ filename.suffix = "event.data.csv"
       /\ \E key \in DOMAIN evData : key[2] = filename.stem
    \/ /\ filename.suffix = "event.grammar.csv"
       /\ \E key \in DOMAIN evGrammar : key[2] = filename.stem
    \/ /\ filename.suffix = "dimension.data.csv"
       /\ filename.stem \in DOMAIN dimData
    \/ /\ filename.suffix = "dimension.grammar.csv"
       /\ filename.stem \in DOMAIN dimGrammar

\* C5: fetch_file_content returns the empty result, raising nothing, when
\* the file name ends in none of the four suffixes or no such file exists
C5_MissingOrUnsupportedIsEmpty ==
    ( /\ ret.op = "fetch_file_content"
      /\ \/ ret.arg.suffix \notin EventSuffixes \cup DimensionSuffixes
         \/ ~NamedFileExists(ret.arg) )
        => ret.result.status = "return" /\ ret.result.kind = "None"

\* the dates carried by the rows of the fact table of metric m
DatesOf(m) ==
    LET rows == evData[<< program_name, m >>].rows
    IN  {rows[r].date : r \in 1..Len(rows)}

\* C9: all rows of all fact tables written by one run carry one date
C9_OneDatePerRun ==
    Cardinality(UNION {DatesOf(m) : m \in WrittenMetrics}) <= 1

\* C10: after a run has returned, the ingest directory holds exactly what
\* that run wrote: a grammar and a data file per dimension and per metric it
\* returned, its program directory alone, and config.json
C10_OnlyLastRunArtifacts ==
    (pc = "idle" /\ outcome = "returned") =>
        /\ DOMAIN dimGrammar = SetOf(dimensions)
        /\ DOMAIN dimData = SetOf(dimensions)
        /\ DOMAIN evGrammar = {<< program_name, m >> : m \in SetOf(metrics)}
        /\ DOMAIN evData = {<< program_name, m >> : m \in SetOf(metrics)}
        /\ ListPrograms(dirs) = {program_name}
        /\ config = program_name

====
